---- MODULE Spec2Model ----
(***************************************************************************)
(* Model of functions/main.py: the question-text segmenter                 *)
(* (split_question_text), the formatting normalizer                        *)
(* (process_formatting_markers), the HWPX paragraph builders and the       *)
(* template-preserving conversion convert_with_template.                   *)
(*                                                                         *)
(* Text is modelled by TLA+ strings, character by character.  TLA+ strings *)
(* are ASCII, so the non-ASCII characters of the source are written with   *)
(* the following stand-ins; the inputs of the model use upper-case letters *)
(* only in this meaning (apart from the tag <TABLE>):                      *)
(*     J = U+C815   D = U+B2F5      "[JD]" is the answer marker            *)
(*     H = U+D574   S = U+C124      "[HS]" is the explanation marker       *)
(*     M = U+BB38   Z = U+C81C      "[MZ]" is the question marker          *)
(*     C F G I K N O P Q R = the circled numerals U+2460 .. U+2469         *)
(* and the grave accent, which a TLA+ string cannot hold, is written ~.    *)
(* Characters up to U+00FF stand for themselves, the control characters    *)
(* U+000B, U+001C..U+001F and U+0085, U+00A0 included.  The white space    *)
(* above U+00FF is written with the letters U+00C0..U+00CE and U+00D1,     *)
(* U+00D2, which the inputs use in this meaning only:                      *)
(*     U+00C0 = U+1680   U+00C1..U+00CB = U+2000..U+200A                   *)
(*     U+00CC = U+202F   U+00CD = U+205F   U+00CE = U+3000                 *)
(*     U+00D1 = U+2028   U+00D2 = U+2029                                   *)
(***************************************************************************)
EXTENDS Integers, Sequences, FiniteSets, TLC

(***************************************************************************)
(* Python string primitives                                                *)
(***************************************************************************)

Min(S) == CHOOSE i \in S : \A j \in S : i <= j

\* s[i] of Python, with i counted from 1
CharAt(s, i) == SubSeq(s, i, i)

\* s[i-1:] of Python, with i counted from 1
From(s, i) == IF i > Len(s) THEN "" ELSE SubSeq(s, i, Len(s))

\* s.startswith(p)
startswith(s, p) == Len(p) <= Len(s) /\ SubSeq(s, 1, Len(p)) = p

\* does sub occur in s at position i, counted from 1
occurs_at(s, sub, i) == SubSeq(s, i, i + Len(sub) - 1) = sub

\* s.find(sub): the 0-based index of the first occurrence, -1 when there is none
find(s, sub) ==
    IF \A i \in 1..(Len(s) - Len(sub) + 1) : ~occurs_at(s, sub, i) THEN -1
    ELSE (CHOOSE i \in 1..(Len(s) - Len(sub) + 1) :
              /\ occurs_at(s, sub, i)
              /\ \A j \in 1..(i - 1) : ~occurs_at(s, sub, j)) - 1

\* sub in s
contains(s, sub) == \E i \in 1..(Len(s) - Len(sub) + 1) : occurs_at(s, sub, i)

\* the line boundaries of str.splitlines() below U+0100: LF, CR, FF, and
\* written as the characters themselves VT (U+000B), FS, GS, RS
\* (U+001C..U+001E) and NEL (U+0085)
NarrowLineBreaks == {"\n", "\r", "\f", "", "", "", "", ""}

\* the stand-ins of the line boundaries U+2028 and U+2029
WideLineBreaks == {"Ñ", "Ò"}

\* the line boundaries of str.splitlines()
LineBreaks == NarrowLineBreaks \cup WideLineBreaks

\* the stand-ins of the white space above U+00FF that is no line boundary:
\* U+1680, U+2000..U+200A, U+202F, U+205F, U+3000
WideSpaces ==
    {"À", "Á", "Â", "Ã", "Ä", "Å", "Æ", "Ç",
     "È", "É", "Ê", "Ë", "Ì", "Í", "Î"}

\* the characters str.strip() removes and the regex class \s matches: the
\* line boundaries, space, TAB, US (U+001F), NBSP (U+00A0) and the white
\* space above U+00FF
Whitespace == LineBreaks \cup {" ", "\t", "", " "} \cup WideSpaces

RECURSIVE lstrip(_)
lstrip(s) == IF s # "" /\ Head(s) \in Whitespace THEN lstrip(Tail(s)) ELSE s

RECURSIVE rstrip(_)
rstrip(s) ==
    IF s # "" /\ CharAt(s, Len(s)) \in Whitespace
    THEN rstrip(SubSeq(s, 1, Len(s) - 1))
    ELSE s

\* s.strip()
strip(s) == rstrip(lstrip(s))

\* s.splitlines(): "\r\n" is one boundary, no empty last line
RECURSIVE splitlines(_)
splitlines(s) ==
    IF s = "" THEN <<>>
    ELSE LET brks == {i \in 1..Len(s) : CharAt(s, i) \in LineBreaks}
         IN  IF brks = {} THEN <<s>>
             ELSE LET i == Min(brks)
                      skip == IF CharAt(s, i) = "\r" /\ i < Len(s) /\ CharAt(s, i + 1) = "\n"
                              THEN 2 ELSE 1
                  IN  <<SubSeq(s, 1, i - 1)>> \o splitlines(From(s, i + skip))

\* s.split("\n"): always at least one piece
RECURSIVE split_nl(_)
split_nl(s) ==
    LET i == find(s, "\n")
    IN  IF i = -1 THEN <<s>>
        ELSE <<SubSeq(s, 1, i)>> \o split_nl(From(s, i + 2))

\* "\n".join(lines)
RECURSIVE join_nl(_)
join_nl(lines) ==
    IF lines = <<>> THEN ""
    ELSE IF Len(lines) = 1 THEN lines[1]
    ELSE lines[1] \o "\n" \o join_nl(Tail(lines))

\* "".join(parts)
RECURSIVE join(_)
join(parts) == IF parts = <<>> THEN "" ELSE Head(parts) \o join(Tail(parts))

\* s.replace(old, new), old non-empty
RECURSIVE replace(_, _, _)
replace(s, old, new) ==
    LET i == find(s, old)
    IN  IF i = -1 THEN s
        ELSE SubSeq(s, 1, i) \o new \o replace(From(s, i + Len(old) + 1), old, new)

(***************************************************************************)
(* split_question_text                                                     *)
(***************************************************************************)

AnswerMarker == "[JD]"
ExplanationMarker == "[HS]"
QuestionMarker == "[MZ]"
CircledNumerals == "CFGIKNOPQR"

\* the substitution without re.DOTALL: the removal stops at the end of the line
sub_to_end_of_line(text, marker) ==
    LET i == find(text, marker)
    IN  IF i = -1 THEN text
        ELSE SubSeq(text, 1, i)
             \o (IF find(From(text, i + 1), "\n") = -1 THEN ""
                 ELSE From(text, i + 1 + find(From(text, i + 1), "\n")))

\* re.sub(marker + '.*', '', text, flags=re.DOTALL): the first occurrence of
\* the marker and everything after it, line breaks included, is removed
sub_to_end(text, marker) ==
    LET i == find(text, marker)
    IN  IF i = -1 THEN text ELSE SubSeq(text, 1, i)

\* lines 43-44
strip_answer_sections(text) ==
    strip(sub_to_end(strip(sub_to_end(text, AnswerMarker)), ExplanationMarker))

\* [line.strip() for line in text.splitlines() if line.strip()]
RECURSIVE stripped_lines(_)
stripped_lines(raw) ==
    IF raw = <<>> THEN <<>>
    ELSE IF strip(Head(raw)) # ""
         THEN <<strip(Head(raw))>> \o stripped_lines(Tail(raw))
         ELSE stripped_lines(Tail(raw))

question_lines(text) == stripped_lines(splitlines(strip_answer_sections(text)))

\* re.sub(r'\[MZ\]\s*', '', line): every occurrence of the question marker
\* is removed together with the whitespace after it
RECURSIVE sub_question_marker(_)
sub_question_marker(s) ==
    IF s = "" THEN ""
    ELSE IF startswith(s, QuestionMarker)
         THEN sub_question_marker(lstrip(From(s, Len(QuestionMarker) + 1)))
         ELSE Head(s) \o sub_question_marker(Tail(s))

\* lines 56-63: does the first line carry the question marker
has_instruction(lines) ==
    startswith(lines[1], QuestionMarker) \/ contains(lines[1], QuestionMarker)

instruction_of(lines) ==
    IF has_instruction(lines) THEN strip(sub_question_marker(lines[1])) ELSE ""

start_idx_of(lines) == IF has_instruction(lines) THEN 1 ELSE 0

\* re.match(r'^[circled numerals]', line)
starts_with_circled(line) ==
    line # "" /\ \E i \in 1..Len(CircledNumerals) : Head(line) = CharAt(CircledNumerals, i)

\* the flag recomputed for every line: a line with no circled numeral clears it
option_flag_per_line(option_started, line) == starts_with_circled(line)

\* line 66-67: the flag after the test of one line
option_flag(option_started, line) ==
    IF ~option_started /\ starts_with_circled(line) THEN TRUE ELSE option_started

\* lines 65-71: one pass of the loop body over the state (flag, stem, options)
split_step(st, line) ==
    LET started == option_flag(st.option_started, line)
    IN  IF started
        THEN [option_started |-> started, stem_lines |-> st.stem_lines,
              option_lines |-> Append(st.option_lines, line)]
        ELSE [option_started |-> started, stem_lines |-> Append(st.stem_lines, line),
              option_lines |-> st.option_lines]

RECURSIVE split_loop(_, _)
split_loop(st, lines) ==
    IF lines = <<>> THEN st ELSE split_loop(split_step(st, Head(lines)), Tail(lines))

split_init == [option_started |-> FALSE, stem_lines |-> <<>>, option_lines |-> <<>>]

\* split_question_text(text) -> (instruction, stem, options)
split_question_text(text) ==
    LET lines == question_lines(text)
    IN  IF lines = <<>> THEN <<"", "", "">>
        ELSE LET st == split_loop(split_init, SubSeq(lines, start_idx_of(lines) + 1, Len(lines)))
             IN  <<instruction_of(lines), join_nl(st.stem_lines), join_nl(st.option_lines)>>

(***************************************************************************)
(* process_formatting_markers                                              *)
(***************************************************************************)

\* the length of the longest run of non-hash characters at the start of s
RECURSIVE non_hash_run(_)
non_hash_run(s) == IF s = "" \/ Head(s) = "#" THEN 0 ELSE 1 + non_hash_run(Tail(s))

\* re.sub(r'##([^#]+)##', r'**\1**', text): scanning from the left, a match
\* is "##", one or more non-hash characters, "##"; matches do not overlap
RECURSIVE sub_bold(_)
sub_bold(s) ==
    IF s = "" THEN ""
    ELSE LET n == non_hash_run(From(s, 3))
         IN  IF startswith(s, "##") /\ n >= 1 /\ startswith(From(s, 3 + n), "##")
             THEN "**" \o SubSeq(s, 3, 2 + n) \o "**" \o sub_bold(From(s, 5 + n))
             ELSE Head(s) \o sub_bold(Tail(s))

\* the case folding of re.IGNORECASE on the letters of the tag
lower_char(c) ==
    CASE c = "T" -> "t" [] c = "A" -> "a" [] c = "B" -> "b"
      [] c = "L" -> "l" [] c = "E" -> "e" [] OTHER -> c

RECURSIVE lower(_)
lower(s) == IF s = "" THEN "" ELSE lower_char(Head(s)) \o lower(Tail(s))

\* the substitution with count=1: only the first table is rewritten
RECURSIVE sub_table_first(_)
sub_table_first(s) ==
    IF s = "" THEN ""
    ELSE IF startswith(lower(s), "<table>") /\ find(lower(From(s, 8)), "</table>") # -1
         THEN "\n~~~\n" \o SubSeq(From(s, 8), 1, find(lower(From(s, 8)), "</table>"))
              \o "\n~~~\n" \o From(From(s, 8), find(lower(From(s, 8)), "</table>") + 9)
         ELSE Head(s) \o sub_table_first(Tail(s))

\* re.sub(r'<table>([\s\S]*?)</table>', r'\n~~~\n\1\n~~~\n', text,
\* flags=re.IGNORECASE): an opening tag with the first closing tag after it
RECURSIVE sub_table(_)
sub_table(s) ==
    IF s = "" THEN ""
    ELSE LET rest == From(s, 8)
             j == find(lower(rest), "</table>")
         IN  IF startswith(lower(s), "<table>") /\ j # -1
             THEN "\n~~~\n" \o SubSeq(rest, 1, j) \o "\n~~~\n" \o sub_table(From(rest, j + 9))
             ELSE Head(s) \o sub_table(Tail(s))

process_formatting_markers(text) == sub_table(sub_bold(text))

(***************************************************************************)
(* _xml_escape, _unique_id, _make_paragraph, _make_paragraph_with_endnote  *)
(***************************************************************************)

_xml_escape(text) ==
    LET t1 == replace(text, "&", "&amp;")
        t2 == replace(t1, "<", "&lt;")
        t3 == replace(t2, ">", "&gt;")
        t4 == replace(t3, "\"", "&quot;")
    IN  replace(t4, "'", "&apos;")

\* random.randint draws from the module-wide Mersenne Twister of Python,
\* whose state when the call starts is arbitrary; over the few hundred
\* draws of a call every sequence of identifiers in ID_MIN..ID_MAX comes
\* from some state of it.  The state is kept as the stream of identifiers
\* it gives and the count of those drawn.
ID_MIN == 100000000
ID_MAX == 2147483647

\* the identifiers CPython draws after random.seed(1)
StreamSeed1 ==
    <<388545018, 1322356005, 1919850095, 1822851096, 1740193506, 235520872,
      647756574, 353228484, 1163938749, 1734154402, 1065274705, 1114138928,
      1499285261, 915217483, 1793770507, 550874518, 301561926, 1147664193,
      160875732, 2018383731, 1894791897, 937108038, 1029360195, 1404463163,
      1736984002, 1747458476, 104522707, 1594289708, 1056461718, 671940513,
      1649495423, 1821909018, 591263128, 1369492320, 2129953361, 319531151,
      2035800732, 781674953, 165691502, 147936369, 154644572, 1494889710,
      1262674447, 119767455, 2116807461, 1992435308, 918629863, 1574212860>>

\* the identifiers CPython draws after random.seed(2)
StreamSeed2 ==
    <<1953513164, 2135444029, 1923332324, 221443151, 296676841, 282261230,
      875365019, 1894220178, 463104290, 1680483516, 1837232767, 1538235079,
      1933595380, 761718012, 640271020, 1401255191, 555736430, 1403096808,
      176739130, 1348126120, 1562965050, 440124608, 1024856009, 1471106759,
      945103140, 1825866985, 1652656621, 1947360140, 1193214019,
      2138811261, 898993397, 1268611296, 2109425545, 1055317097,
      1178181303, 676042599, 2035329011, 177146899, 1970529061, 158937378,
      881715036, 1098351952, 2101125236, 783898649, 2049378517, 916075831,
      1009697619, 2015103274>>

\* the streams a call is run on: the two above, and the ends of the range
\* in turn, which repeats identifiers inside one paragraph
DrawStreams == <<StreamSeed1, StreamSeed2, <<ID_MIN, ID_MAX, ID_MAX>>>>

Generator(k) == [stream |-> k, drawn |-> 0]

\* the state after one more draw
rng_next(r) == [r EXCEPT !.drawn = r.drawn + 1]

\* random.randint(ID_MIN, ID_MAX): the draw that led to state r; a stream
\* shorter than the call is read again from its start
randint(r) ==
    DrawStreams[r.stream][((r.drawn - 1) % Len(DrawStreams[r.stream])) + 1]

\* _unique_id(): the draw that led to state r, in decimal
_unique_id(r) == ToString(randint(r))

\* lines 220-233: one run per non-empty stripped line, one empty run when
\* every line is empty
RECURSIVE runs_of(_, _)
runs_of(lines, char_pr_id) ==
    IF lines = <<>> THEN ""
    ELSE LET line == strip(Head(lines))
         IN  (IF line = "" THEN ""
              ELSE "<hp:run charPrIDRef=\"" \o ToString(char_pr_id) \o "\"><hp:t>"
                   \o line \o "</hp:t></hp:run>")
             \o runs_of(Tail(lines), char_pr_id)

\* _make_paragraph, with the identifier it draws given as pid
_make_paragraph(text, style_id, para_pr_id, char_pr_id, pid) ==
    LET escaped == _xml_escape(text)
        runs == runs_of(split_nl(escaped), char_pr_id)
        runs_xml == IF runs = ""
                    THEN "<hp:run charPrIDRef=\"" \o ToString(char_pr_id) \o "\"><hp:t/></hp:run>"
                    ELSE runs
    IN  "<hp:p id=\"" \o pid \o "\" paraPrIDRef=\"" \o ToString(para_pr_id) \o "\" "
        \o "styleIDRef=\"" \o ToString(style_id)
        \o "\" pageBreak=\"0\" columnBreak=\"0\" merged=\"0\">"
        \o runs_xml \o "</hp:p>"

\* _make_paragraph_with_endnote, with the four identifiers it draws given
\* in the order it draws them
_make_paragraph_with_endnote(text, style_id, para_pr_id, char_pr_id, endnote_text, endnote_num, endnote_char_pr_id, endnote_para_pr_id, pid, endnote_pid, endnote_sub_id, note_p_id) ==
    LET escaped_text == _xml_escape(text)
        escaped_note == _xml_escape(endnote_text)
    IN  "<hp:p id=\"" \o pid \o "\" paraPrIDRef=\"" \o ToString(para_pr_id) \o "\" "
        \o "styleIDRef=\"" \o ToString(style_id)
        \o "\" pageBreak=\"0\" columnBreak=\"0\" merged=\"0\">"
        \o "<hp:run charPrIDRef=\"" \o ToString(char_pr_id) \o "\"><hp:t>"
        \o escaped_text \o "</hp:t></hp:run>"
        \o "<hp:run charPrIDRef=\"" \o ToString(char_pr_id) \o "\">"
        \o "<hp:ctrl>"
        \o "<hp:endNote id=\"" \o endnote_pid \o "\" number=\"" \o ToString(endnote_num) \o "\">"
        \o "<hp:subList id=\"" \o endnote_sub_id \o "\" textDirection=\"HORIZONTAL\" "
        \o "lineWrap=\"BREAK\" vertAlign=\"TOP\" linkListIDRef=\"0\" linkListNextIDRef=\"0\" "
        \o "textWidth=\"0\" textHeight=\"0\" hasTextRef=\"0\" hasNumRef=\"0\">"
        \o "<hp:p id=\"" \o note_p_id \o "\" paraPrIDRef=\"" \o ToString(endnote_para_pr_id) \o "\" "
        \o "styleIDRef=\"17\" pageBreak=\"0\" columnBreak=\"0\" merged=\"0\">"
        \o "<hp:run charPrIDRef=\"" \o ToString(endnote_char_pr_id) \o "\"><hp:t>"
        \o escaped_note \o "</hp:t></hp:run>"
        \o "</hp:p>"
        \o "</hp:subList>"
        \o "</hp:endNote>"
        \o "</hp:ctrl>"
        \o "</hp:run>"
        \o "</hp:p>"

STYLE_MAP ==
    [source      |-> [style |-> 1,  paraPr |-> 1,  charPr |-> 19],
     instruction |-> [style |-> 3,  paraPr |-> 18, charPr |-> 16],
     stem        |-> [style |-> 5,  paraPr |-> 5,  charPr |-> 14],
     options     |-> [style |-> 7,  paraPr |-> 14, charPr |-> 16],
     endnote     |-> [style |-> 17, paraPr |-> 15, charPr |-> 8]]

(***************************************************************************)
(* JSON objects, zip archives                                              *)
(***************************************************************************)

\* d.get(key, default)
get(d, key, default) == IF key \in DOMAIN d THEN d[key] ELSE default

\* A zip archive is the sequence of its entries (file name, data); bytes
\* that are no archive have valid = FALSE.
EmptyZip == [valid |-> TRUE, entries |-> <<>>]
NotAZip == [valid |-> FALSE, entries |-> <<>>]

SECTION_PATH == "Contents/section0.xml"

\* ZipFile.infolist(): the file names, one per entry
infolist(zip) == [k \in 1..Len(zip.entries) |-> zip.entries[k].filename]

has_member(zip, name) == \E k \in 1..Len(zip.entries) : zip.entries[k].filename = name

\* ZipFile.read(name): the data of the last entry of that name
zip_read(zip, name) ==
    LET k == CHOOSE k \in 1..Len(zip.entries) :
                 /\ zip.entries[k].filename = name
                 /\ \A m \in (k + 1)..Len(zip.entries) : zip.entries[m].filename # name
    IN  zip.entries[k].data

\* d[key] = value on a dict kept as the sequence of its items
dict_set(d, key, value) ==
    IF \E k \in 1..Len(d) : d[k].filename = key
    THEN [k \in 1..Len(d) |-> IF d[k].filename = key
                              THEN [filename |-> key, data |-> value] ELSE d[k]]
    ELSE Append(d, [filename |-> key, data |-> value])

\* lines 318-320
RECURSIVE read_all(_, _, _)
read_all(zip, names, all) ==
    IF names = <<>> THEN all
    ELSE read_all(zip, Tail(names), dict_set(all, Head(names), zip_read(zip, Head(names))))

\* the test of the file name lost: the new section is written for every item
written_data_always_section(filename, data, section) == section

\* lines 416-419: what is written for one item of all_files
written_data(filename, data, section) == IF filename = SECTION_PATH THEN section ELSE data

\* lines 414-419
write_all(all, section) ==
    [valid |-> TRUE,
     entries |-> [k \in 1..Len(all) |->
                    [filename |-> all[k].filename,
                     data |-> written_data(all[k].filename, all[k].data, section)]]]

(***************************************************************************)
(* convert_with_template: the pieces of the loop body                      *)
(***************************************************************************)

CLOSE_P == "</hp:p>"
CLOSE_SEC == "</hs:sec>"

\* the check of line 305 lost
no_questions_unchecked(qs) == FALSE

\* line 305: not questions
no_questions(qs) == qs = <<>>

\* the comparison with current_source lost
source_nonempty(source, current) == source # ""

\* line 347
source_changed(source, current) == source # "" /\ source # current

\* line 361
has_endnote(answer, explanation) == answer # "" \/ explanation # ""

\* lines 363-368
endnote_content(answer, explanation) ==
    IF answer # "" /\ explanation # "" THEN "JD: " \o answer \o " | " \o "HS: " \o explanation
    ELSE IF answer # "" THEN "JD: " \o answer
    ELSE IF explanation # "" THEN "HS: " \o explanation
    ELSE ""

\* the increment lost
same_endnote_counter(counter) == counter

\* line 379
next_endnote_counter(counter) == counter + 1

\* line 355: the three texts the paragraphs of a question are built from
parsed_text(text) == split_question_text(text)

\* line 358
instruction_text_of(number, instruction) ==
    IF instruction # "" THEN ToString(number) \o ". " \o instruction
    ELSE ToString(number) \o "."

\* content_paragraphs.append(_make_paragraph(...)) on the pair
\* (content_paragraphs, generator state)
append_paragraph(b, text, st) ==
    LET r1 == rng_next(b.rng)
    IN  [paras |-> Append(b.paras,
                          _make_paragraph(text, st.style, st.paraPr, st.charPr, _unique_id(r1))),
         rng |-> r1]

\* lines 370-378
append_with_endnote(b, text, note, counter) ==
    LET r1 == rng_next(b.rng)
        r2 == rng_next(r1)
        r3 == rng_next(r2)
        r4 == rng_next(r3)
        s_inst == STYLE_MAP.instruction
        s_note == STYLE_MAP.endnote
    IN  [paras |-> Append(b.paras,
                          _make_paragraph_with_endnote(
                              text, s_inst.style, s_inst.paraPr, s_inst.charPr,
                              note, counter, s_note.charPr, s_note.paraPr,
                              _unique_id(r1), _unique_id(r2), _unique_id(r3), _unique_id(r4))),
         rng |-> r4]

\* lines 388-393 and 398-403: one paragraph per non-empty stripped line
RECURSIVE append_lines(_, _, _)
append_lines(b, lines, st) ==
    IF lines = <<>> THEN b
    ELSE LET line == strip(Head(lines))
         IN  append_lines(IF line # "" THEN append_paragraph(b, line, st) ELSE b,
                          Tail(lines), st)

\* lines 346-352: the source paragraph, when the source changes
with_source(b, source, current) ==
    IF source_changed(source, current)
    THEN append_paragraph(b, source, STYLE_MAP.source) ELSE b

\* lines 357-383: the instruction paragraph, with the endnote when the
\* question has an answer or an explanation
with_instruction(b, instruction_text, answer, explanation, counter) ==
    IF has_endnote(answer, explanation)
    THEN append_with_endnote(b, instruction_text,
                             endnote_content(answer, explanation), counter)
    ELSE append_paragraph(b, instruction_text, STYLE_MAP.instruction)

\* lines 386-393 and 396-403: the paragraphs of the stem or of the options
with_lines(b, block, st) ==
    IF block # "" THEN append_lines(b, split_nl(block), st) ELSE b

\* the options emitted before the stem
options_before_stem(b, parts, number, answer, explanation, counter) ==
    append_paragraph(
        with_lines(
            with_lines(
                with_instruction(b, instruction_text_of(number, parts[1]),
                                 answer, explanation, counter),
                parts[3], STYLE_MAP.options),
            parts[2], STYLE_MAP.stem),
        "", STYLE_MAP.stem)

\* lines 354-408 on the parsed text
parsed_paragraphs(b, parts, number, answer, explanation, counter) ==
    append_paragraph(
        with_lines(
            with_lines(
                with_instruction(b, instruction_text_of(number, parts[1]),
                                 answer, explanation, counter),
                parts[2], STYLE_MAP.stem),
            parts[3], STYLE_MAP.options),
        "", STYLE_MAP.stem)

\* lines 339-408: the loop body for question q at 0-based index i
question_paragraphs(b, q, i, current, counter) ==
    parsed_paragraphs(with_source(b, get(q, "source", ""), current),
                      parsed_text(get(q, "text", "")),
                      get(q, "number", i + 1),
                      get(q, "answer", ""), get(q, "explanation", ""), counter)

(***************************************************************************)
(* Inputs                                                                  *)
(***************************************************************************)

MaxQuestions == 3
MaxEntries == 3

SeqsUpTo(S, n) == UNION {[1..k -> S] : k \in 0..n}

\* section texts: a plain structural paragraph followed by old content, a
\* structural paragraph that holds a nested paragraph, a section with no
\* closing paragraph tag
SectionPlain ==
    "<hs:sec><hp:p id=\"1\"><hp:run><hp:secPr/></hp:run></hp:p><hp:p id=\"2\"><hp:run><hp:t>old</hp:t></hp:run></hp:p></hs:sec>"
SectionNested ==
    "<hs:sec><hp:p id=\"1\"><hp:run><hp:ctrl><hp:p id=\"9\"><hp:run/></hp:p></hp:ctrl><hp:secPr/></hp:run></hp:p></hs:sec>"
SectionNoClose == "<hs:sec><hp:p id=\"1\"/></hs:sec>"

EntryPool ==
    {[filename |-> "mimetype", data |-> "application/hwp+zip"],
     [filename |-> "Contents/header.xml", data |-> "<hh:head v=\"1\"/>"],
     [filename |-> "Contents/header.xml", data |-> "<hh:head v=\"2\"/>"],
     [filename |-> SECTION_PATH, data |-> SectionPlain],
     [filename |-> SECTION_PATH, data |-> SectionNested],
     [filename |-> SECTION_PATH, data |-> SectionNoClose]}

Zip(entries) == [valid |-> TRUE, entries |-> entries]

AllTemplates == {Zip(es) : es \in SeqsUpTo(EntryPool, MaxEntries)} \cup {NotAZip}

FewTemplates ==
    {Zip(<<[filename |-> "mimetype", data |-> "application/hwp+zip"],
           [filename |-> "Contents/header.xml", data |-> "<hh:head v=\"1\"/>"],
           [filename |-> SECTION_PATH, data |-> SectionPlain]>>),
     Zip(<<[filename |-> SECTION_PATH, data |-> SectionNested],
           [filename |-> "Contents/header.xml", data |-> "<hh:head v=\"1\"/>"]>>)}

TextFull == "[MZ] read\np1\nCa\nFb"
TextMarked == "##x## y\n<table>t</table>"
TextCut == "[MZ]q & <r>\n##x##\nC##o##[JD]C"
\* a stem line and an option line with VT between them, US at the end
TextBreaks == "p1Ca"

QuestionPool ==
    {[number |-> 1, source |-> "s1", text |-> TextFull, answer |-> "C", explanation |-> "e"],
     [number |-> 2, source |-> "s1", text |-> TextMarked, answer |-> "", explanation |-> ""],
     [source |-> "s2", text |-> "", answer |-> "F"],
     [number |-> 7, source |-> "", text |-> TextCut, explanation |-> "e<"],
     [number |-> 4, source |-> " ", text |-> TextBreaks, answer |-> "", explanation |-> ""]}

RichRequests == {[questions |-> qs] : qs \in SeqsUpTo(QuestionPool, MaxQuestions)}

FewRequests ==
    {[title |-> "t"],
     [questions |-> <<>>],
     [questions |-> <<[number |-> 1, source |-> "s1", text |-> TextFull,
                       answer |-> "C", explanation |-> "e"]>>]}

\* the generator states a call may start from
Generators == {Generator(k) : k \in 1..Len(DrawStreams)}

MaxLines == 3
MaxPieces == 4

\* lines of question text: plain, circled, with the question marker at the
\* start or inside, with an answer or explanation marker, blank, and with
\* white space other than space: VT between a and Cb, US after the question
\* marker, U+3000 before b and U+2028 between b and Rd
LinePool ==
    {"a", " b ", "Cc", "Rd", "[MZ]q", "x [MZ]  y", "C[MZ]z",
     "e[JD]f", "[HS]h", "[J[MZ]D]s", " ",
     "aCb", "[MZ]q", "ÎbÑRd"}

SegTexts == {join_nl(ls) : ls \in SeqsUpTo(LinePool, MaxLines)}

PiecePool == {"#", "##", "####", "a", "\n", "<table>", "</table>", "<TABLE>"}

NormTexts == {join(ps) : ps \in SeqsUpTo(PiecePool, MaxPieces)}


(***************************************************************************)
(* State                                                                   *)
(***************************************************************************)

VARIABLES
    template_bytes,       \* argument: the uploaded template
    json_data,            \* argument: the request object
    rng,                  \* state of the pseudo-random generator
    pc,                   \* position in convert_with_template
    tmpdir,               \* the files of the temporary directory
    section_xml, all_files, structural_part,
    content_paragraphs, current_source, endnote_counter, idx,
    new_section,
    result,               \* what the call returned or raised
    seg,                  \* a run of split_question_text, line by line
    norm                  \* texts produced by repeated process_formatting_markers

convVars == <<template_bytes, json_data, rng, pc, tmpdir, section_xml, all_files,
              structural_part, content_paragraphs, current_source, endnote_counter,
              idx, new_section, result>>
vars == <<template_bytes, json_data, rng, pc, tmpdir, section_xml, all_files,
          structural_part, content_paragraphs, current_source, endnote_counter,
          idx, new_section, result, seg, norm>>

\* questions = json_data.get("questions", [])
questions == get(json_data, "questions", <<>>)

NoFile == [exists |-> FALSE, content |-> EmptyZip]
File(zip) == [exists |-> TRUE, content |-> zip]
NoTmpdir == [template |-> NoFile, output |-> NoFile]

NoResult == [kind |-> "none", bytes |-> EmptyZip, error |-> ""]
Raised(e) == [kind |-> "raised", bytes |-> EmptyZip, error |-> e]
Returned(zip) == [kind |-> "returned", bytes |-> zip, error |-> ""]

SegIdle == [pc |-> "idle", text |-> "", lines |-> <<>>, k |-> 0, instruction |-> "",
            option_started |-> FALSE, stem_lines |-> <<>>, option_lines |-> <<>>,
            result |-> <<"", "", "">>]

\* the locals of convert_with_template before the call assigns them
ConvLocalsInit ==
    /\ tmpdir = NoTmpdir
    /\ section_xml = ""
    /\ all_files = <<>>
    /\ structural_part = ""
    /\ content_paragraphs = <<>>
    /\ current_source = ""
    /\ endnote_counter = 1
    /\ idx = 0
    /\ new_section = ""
    /\ result = NoResult

(***************************************************************************)
(* convert_with_template                                                   *)
(***************************************************************************)

\* lines 304-306: no questions, ValueError before anything else is done
RaiseNoQuestions ==
    /\ pc = "start"
    /\ no_questions(questions)
    /\ pc' = "failed"
    /\ result' = Raised("ValueError: no questions")
    /\ UNCHANGED <<template_bytes, json_data, rng, tmpdir, section_xml, all_files,
                   structural_part, content_paragraphs, current_source,
                   endnote_counter, idx, new_section, seg, norm>>

\* lines 308-314: the temporary directory is made and the template saved
SaveTemplate ==
    /\ pc = "start"
    /\ ~no_questions(questions)
    /\ tmpdir' = [tmpdir EXCEPT !.template = File(template_bytes)]
    /\ pc' = "unzip"
    /\ UNCHANGED <<template_bytes, json_data, rng, section_xml, all_files,
                   structural_part, content_paragraphs, current_source,
                   endnote_counter, idx, new_section, result, seg, norm>>

\* line 316: the saved file is no zip archive, zipfile.BadZipFile; the
\* temporary directory is removed as the with block is left
RaiseBadZip ==
    /\ pc = "unzip"
    /\ ~tmpdir.template.content.valid
    /\ pc' = "failed"
    /\ tmpdir' = NoTmpdir
    /\ result' = Raised("BadZipFile")
    /\ UNCHANGED <<template_bytes, json_data, rng, section_xml, all_files,
                   structural_part, content_paragraphs, current_source,
                   endnote_counter, idx, new_section, seg, norm>>

\* line 317: the archive has no Contents/section0.xml, KeyError
RaiseNoSection ==
    /\ pc = "unzip"
    /\ tmpdir.template.content.valid
    /\ ~has_member(tmpdir.template.content, SECTION_PATH)
    /\ pc' = "failed"
    /\ tmpdir' = NoTmpdir
    /\ result' = Raised("KeyError")
    /\ UNCHANGED <<template_bytes, json_data, rng, section_xml, all_files,
                   structural_part, content_paragraphs, current_source,
                   endnote_counter, idx, new_section, seg, norm>>

\* lines 316-320
ReadTemplate ==
    /\ pc = "unzip"
    /\ tmpdir.template.content.valid
    /\ has_member(tmpdir.template.content, SECTION_PATH)
    /\ section_xml' = zip_read(tmpdir.template.content, SECTION_PATH)
    /\ all_files' = read_all(tmpdir.template.content, infolist(tmpdir.template.content), <<>>)
    /\ pc' = "locate"
    /\ UNCHANGED <<template_bytes, json_data, rng, tmpdir, structural_part,
                   content_paragraphs, current_source, endnote_counter, idx,
                   new_section, result, seg, norm>>

\* lines 326-329: no </hp:p> in the section, ValueError
RaiseNoParagraph ==
    /\ pc = "locate"
    /\ find(section_xml, CLOSE_P) = -1
    /\ pc' = "failed"
    /\ tmpdir' = NoTmpdir
    /\ result' = Raised("ValueError: no </hp:p>")
    /\ UNCHANGED <<template_bytes, json_data, rng, section_xml, all_files,
                   structural_part, content_paragraphs, current_source,
                   endnote_counter, idx, new_section, seg, norm>>

\* lines 326-337
LocateStructure ==
    /\ pc = "locate"
    /\ find(section_xml, CLOSE_P) # -1
    /\ structural_part' = SubSeq(section_xml, 1, find(section_xml, CLOSE_P) + Len(CLOSE_P))
    /\ content_paragraphs' = <<>>
    /\ current_source' = ""
    /\ endnote_counter' = 1
    /\ idx' = 0
    /\ pc' = "loop"
    /\ UNCHANGED <<template_bytes, json_data, rng, tmpdir, section_xml, all_files,
                   new_section, result, seg, norm>>

\* lines 339-408: one pass of the loop
ProcessQuestion ==
    /\ pc = "loop"
    /\ idx < Len(questions)
    /\ \E b \in {question_paragraphs([paras |-> content_paragraphs, rng |-> rng],
                                    questions[idx + 1], idx, current_source,
                                    endnote_counter)} :
           /\ content_paragraphs' = b.paras
           /\ rng' = b.rng
    /\ current_source' = IF source_changed(get(questions[idx + 1], "source", ""), current_source)
                         THEN get(questions[idx + 1], "source", "")
                         ELSE current_source
    /\ endnote_counter' = IF has_endnote(get(questions[idx + 1], "answer", ""),
                                         get(questions[idx + 1], "explanation", ""))
                          THEN next_endnote_counter(endnote_counter)
                          ELSE endnote_counter
    /\ idx' = idx + 1
    /\ UNCHANGED <<template_bytes, json_data, pc, tmpdir, section_xml, all_files,
                   structural_part, new_section, result, seg, norm>>

\* line 411
AssembleSection ==
    /\ pc = "loop"
    /\ idx = Len(questions)
    /\ new_section' = structural_part \o join(content_paragraphs) \o CLOSE_SEC
    /\ pc' = "write"
    /\ UNCHANGED <<template_bytes, json_data, rng, tmpdir, section_xml, all_files,
                   structural_part, content_paragraphs, current_source,
                   endnote_counter, idx, result, seg, norm>>

\* lines 414-419
WriteOutput ==
    /\ pc = "write"
    /\ tmpdir' = [tmpdir EXCEPT !.output = File(write_all(all_files, new_section))]
    /\ pc' = "return"
    /\ UNCHANGED <<template_bytes, json_data, rng, section_xml, all_files,
                   structural_part, content_paragraphs, current_source,
                   endnote_counter, idx, new_section, result, seg, norm>>

\* lines 421-422: the output file is read and returned, the temporary
\* directory removed
ReturnBytes ==
    /\ pc = "return"
    /\ result' = Returned(tmpdir.output.content)
    /\ tmpdir' = NoTmpdir
    /\ pc' = "done"
    /\ UNCHANGED <<template_bytes, json_data, rng, section_xml, all_files,
                   structural_part, content_paragraphs, current_source,
                   endnote_counter, idx, new_section, seg, norm>>

Next ==
    \/ RaiseNoQuestions
    \/ SaveTemplate
    \/ RaiseBadZip
    \/ RaiseNoSection
    \/ ReadTemplate
    \/ RaiseNoParagraph
    \/ LocateStructure
    \/ ProcessQuestion
    \/ AssembleSection
    \/ WriteOutput
    \/ ReturnBytes

Init ==
    /\ \/ /\ template_bytes \in FewTemplates
          /\ json_data \in RichRequests
          /\ rng = Generator(1)
       \/ /\ template_bytes \in AllTemplates
          /\ json_data \in FewRequests
          /\ rng \in Generators
    /\ pc = "start"
    /\ ConvLocalsInit
    /\ seg = SegIdle
    /\ norm = <<>>

Spec == Init /\ [][Next]_vars

\* lines 304-332, the steps of a call up to the loop
BeforeLoop ==
    \/ RaiseNoQuestions
    \/ SaveTemplate
    \/ RaiseBadZip
    \/ RaiseNoSection
    \/ ReadTemplate
    \/ RaiseNoParagraph
    \/ LocateStructure

\* the steps up to the loop are taken when they can be: nothing in them waits
FairSpec == Spec /\ WF_vars(BeforeLoop)

(***************************************************************************)
(* split_question_text, one step per statement                             *)
(***************************************************************************)

\* lines 43-48: the text without its answer sections has no line
SegReturnEmpty ==
    /\ seg.pc = "start"
    /\ question_lines(seg.text) = <<>>
    /\ seg' = [seg EXCEPT !.pc = "done", !.result = <<"", "", "">>]
    /\ UNCHANGED <<convVars, norm>>

\* lines 43-53
SegLines ==
    /\ seg.pc = "start"
    /\ question_lines(seg.text) # <<>>
    /\ seg' = [seg EXCEPT !.pc = "first", !.lines = question_lines(seg.text),
                          !.instruction = "", !.option_started = FALSE,
                          !.stem_lines = <<>>, !.option_lines = <<>>]
    /\ UNCHANGED <<convVars, norm>>

\* lines 56-63
SegInstruction ==
    /\ seg.pc = "first"
    /\ seg' = [seg EXCEPT !.pc = "scan", !.instruction = instruction_of(seg.lines),
                          !.k = start_idx_of(seg.lines)]
    /\ UNCHANGED <<convVars, norm>>

\* lines 65-71, for the line at 0-based index k
SegLine ==
    /\ seg.pc = "scan"
    /\ seg.k < Len(seg.lines)
    /\ \E st \in {split_step([option_started |-> seg.option_started,
                              stem_lines |-> seg.stem_lines,
                              option_lines |-> seg.option_lines],
                             seg.lines[seg.k + 1])} :
           seg' = [seg EXCEPT !.k = seg.k + 1, !.option_started = st.option_started,
                              !.stem_lines = st.stem_lines,
                              !.option_lines = st.option_lines]
    /\ UNCHANGED <<convVars, norm>>

\* line 73
SegReturn ==
    /\ seg.pc = "scan"
    /\ seg.k = Len(seg.lines)
    /\ seg' = [seg EXCEPT !.pc = "done",
                          !.result = <<seg.instruction, join_nl(seg.stem_lines),
                                       join_nl(seg.option_lines)>>]
    /\ UNCHANGED <<convVars, norm>>

ConvIdle ==
    /\ template_bytes = NotAZip
    /\ json_data = [title |-> "t"]
    /\ rng = Generator(1)
    /\ pc = "idle"
    /\ ConvLocalsInit

SegInit ==
    /\ ConvIdle
    /\ \E t \in SegTexts : seg = [SegIdle EXCEPT !.pc = "start", !.text = t]
    /\ norm = <<>>

SegNext ==
    \/ SegReturnEmpty
    \/ SegLines
    \/ SegInstruction
    \/ SegLine
    \/ SegReturn

SegSpec == SegInit /\ [][SegNext]_vars

(***************************************************************************)
(* process_formatting_markers, applied again to its own output             *)
(***************************************************************************)

Normalize ==
    /\ norm # <<>>
    /\ Len(norm) < 3
    /\ norm' = Append(norm, process_formatting_markers(norm[Len(norm)]))
    /\ UNCHANGED <<convVars, seg>>

NormInit ==
    /\ ConvIdle
    /\ seg = SegIdle
    /\ \E t \in NormTexts : norm = <<t>>

NormNext == Normalize

NormSpec == NormInit /\ [][NormNext]_vars

(***************************************************************************)
(* Properties of process_formatting_markers                                *)
(***************************************************************************)

\* positions (from 1) at which tag starts in t, letter case ignored
TagPositions(t, tag) ==
    {i \in 1..(Len(t) - Len(tag) + 1) : lower(SubSeq(t, i, i + Len(tag) - 1)) = tag}

\* an opening table tag follows another with no closing tag between them
NestedTableTag(t) ==
    \E i \in TagPositions(t, "<table>") : \E j \in TagPositions(t, "<table>") :
        /\ i < j
        /\ \A c \in TagPositions(t, "</table>") : ~(i < c /\ c < j)

\* no run of four or more hash characters, no nested opening table tag
SimpleMarkup(t) == ~contains(t, "####") /\ ~NestedTableTag(t)

\* C3 as stated: process_formatting_markers is idempotent on every text,
\* the second application returns the result of the first unchanged
C3_IdempotentEverywhere == Len(norm) = 3 => norm[3] = norm[2]

\* C3 amended: process_formatting_markers is idempotent on every text that
\* has no run of four or more hash characters and no opening table tag
\* that follows another opening table tag with no closing tag between them
C3_IdempotentOnSimpleMarkup ==
    (Len(norm) = 3 /\ SimpleMarkup(norm[1])) => norm[3] = norm[2]

\* both rewrites acted on a simple text and it was normalized twice
C3_Witness ==
    /\ Len(norm) = 3
    /\ SimpleMarkup(norm[1])
    /\ contains(norm[1], "##")
    /\ contains(norm[2], "**")
    /\ norm[2] # norm[1]

(***************************************************************************)
(* Properties of split_question_text                                       *)
(***************************************************************************)

HasAnswerSection(t) == contains(t, AnswerMarker) \/ contains(t, ExplanationMarker)

\* 0-based index of the earliest answer or explanation marker of t
EarliestMarker(t) ==
    Min({find(t, m) : m \in {AnswerMarker, ExplanationMarker}} \ {-1})

\* the part of t before its earliest answer or explanation marker
BeforeMarker(t) == SubSeq(t, 1, EarliestMarker(t))

NoMarkerIn(out) == ~contains(out, AnswerMarker) /\ ~contains(out, ExplanationMarker)

\* C4 as stated: when the text holds an answer or explanation marker, no
\* output holds a marker and the outputs are those of the text cut at the
\* earliest marker
C4_NoMarkerInOutputs ==
    (seg.pc = "done" /\ HasAnswerSection(seg.text)) =>
        /\ \A n \in 1..3 : NoMarkerIn(seg.result[n])
        /\ seg.result = split_question_text(BeforeMarker(seg.text))

\* C4 amended: when the text holds an answer or explanation marker, the
\* outputs are exactly those of the text cut at the earliest marker, so
\* nothing from or after it reaches an output; stem and options hold no
\* marker, and the instruction holds one only if the first line carries the
\* question marker, whose removal joined the marker's characters
C4_CutAtEarliestMarker ==
    (seg.pc = "done" /\ HasAnswerSection(seg.text)) =>
        /\ seg.result = split_question_text(BeforeMarker(seg.text))
        /\ NoMarkerIn(seg.result[2])
        /\ NoMarkerIn(seg.result[3])
        /\ ~NoMarkerIn(seg.result[1]) => contains(seg.lines[1], QuestionMarker)

\* a marker with a further line after it was cut and a stem remains
C4_Witness ==
    /\ seg.pc = "done"
    /\ HasAnswerSection(seg.text)
    /\ contains(From(seg.text, EarliestMarker(seg.text) + 1), "\na")
    /\ seg.result[2] # ""

\* 1-based index of the first line after position from that starts with a
\* circled numeral, Len(lines) + 1 when there is none
FirstCircledAfter(lines, from) ==
    Min({j \in (from + 1)..Len(lines) : starts_with_circled(lines[j])} \cup {Len(lines) + 1})

LeadingMarkerLines(lines) == IF contains(lines[1], QuestionMarker) THEN 1 ELSE 0

\* C5 as stated: with k the first of all the lines that starts with a
\* circled numeral, options are the lines from k on and stem the lines
\* before k without a leading line that carries the question marker
C5_SplitAtFirstCircledLine ==
    (seg.pc = "done" /\ seg.lines # <<>>) =>
        /\ seg.result[3] =
               join_nl(SubSeq(seg.lines, FirstCircledAfter(seg.lines, 0), Len(seg.lines)))
        /\ seg.result[2] =
               join_nl(SubSeq(seg.lines, LeadingMarkerLines(seg.lines) + 1,
                              FirstCircledAfter(seg.lines, 0) - 1))

\* C5 amended: with k the first line that starts with a circled numeral,
\* not counting a leading line that carries the question marker, options
\* are the lines from k on, stem the lines between that leading line and k;
\* while the lines are scanned the flag is set exactly when such a line has
\* been passed, so it is never cleared
C5_SplitAtFirstCircledBodyLine ==
    /\ (seg.pc = "done" /\ seg.lines # <<>>) =>
        /\ seg.result[3] =
               join_nl(SubSeq(seg.lines,
                              FirstCircledAfter(seg.lines, LeadingMarkerLines(seg.lines)),
                              Len(seg.lines)))
        /\ seg.result[2] =
               join_nl(SubSeq(seg.lines, LeadingMarkerLines(seg.lines) + 1,
                              FirstCircledAfter(seg.lines, LeadingMarkerLines(seg.lines)) - 1))
    /\ seg.pc = "scan" =>
        /\ seg.option_started <=>
               FirstCircledAfter(seg.lines, LeadingMarkerLines(seg.lines)) <= seg.k
        /\ Len(seg.stem_lines) + Len(seg.option_lines) = seg.k - LeadingMarkerLines(seg.lines)

\* a stem line, then a circled line, then a line with no circled numeral
\* that went to the options
C5_Witness ==
    /\ seg.pc = "done"
    /\ seg.stem_lines # <<>>
    /\ Len(seg.option_lines) >= 2
    /\ ~starts_with_circled(seg.option_lines[2])

(***************************************************************************)
(* Reading the emitted paragraphs                                          *)
(***************************************************************************)

\* the text of s before the first occurrence of stop
Before(s, stop) == SubSeq(s, 1, find(s, stop))

\* the value of the first attribute name="..." of an XML fragment
AttributeOf(frag, name) ==
    Before(From(frag, find(frag, name \o "=\"") + Len(name) + 3), "\"")

IsEndnoteParagraph(frag) == contains(frag, "<hp:endNote ")

\* the text of the first run of a paragraph, "" for an empty run
TextOf(frag) ==
    IF ~contains(frag, "<hp:t>") THEN ""
    ELSE Before(From(frag, find(frag, "<hp:t>") + 7), "</hp:t>")

\* the role of a paragraph, from its style and shape
RoleOfStyle(frag, style) ==
    CASE style = "1" -> "source"
      [] style = "3" ->
             IF IsEndnoteParagraph(frag) THEN "instruction+endnote" ELSE "instruction"
      [] style = "5" -> IF contains(frag, "<hp:t/>") THEN "spacer" ELSE "stem"
      [] style = "7" -> "options"
      [] OTHER -> "other"

RoleOf(frag) == RoleOfStyle(frag, AttributeOf(frag, "styleIDRef"))

Roles(paras) == [p \in 1..Len(paras) |-> RoleOf(paras[p])]

IsInstruction(frag) == RoleOf(frag) \in {"instruction", "instruction+endnote"}

\* the questions the loop has passed
Processed == SubSeq(questions, 1, idx)

InLoopOrAfter == pc \in {"loop", "done"}

CarriesNote(q) == get(q, "answer", "") # "" \/ get(q, "explanation", "") # ""

RECURSIVE Concat(_)
Concat(seqs) == IF seqs = <<>> THEN <<>> ELSE Head(seqs) \o Concat(Tail(seqs))

(***************************************************************************)
(* Properties of convert_with_template                                     *)
(***************************************************************************)

FileNames(zip) == {zip.entries[k].filename : k \in 1..Len(zip.entries)}

\* C1: when the call returns, the returned package has the file names of
\* the template, every file other than Contents/section0.xml has the data
\* it has in the template, and Contents/section0.xml holds the new section
C1_OtherResourcesUnchanged ==
    pc = "done" =>
        /\ result.kind = "returned"
        /\ result.bytes.valid
        /\ FileNames(result.bytes) = FileNames(template_bytes)
        /\ \A name \in FileNames(template_bytes) \ {SECTION_PATH} :
               zip_read(result.bytes, name) = zip_read(template_bytes, name)
        /\ zip_read(result.bytes, SECTION_PATH) = new_section
        /\ zip_read(result.bytes, SECTION_PATH) # zip_read(template_bytes, SECTION_PATH)

\* a package with files other than the section was converted
C1_Witness ==
    /\ pc = "done"
    /\ Cardinality(FileNames(template_bytes)) >= 3
    /\ Len(questions) >= 1

\* the endnote paragraphs emitted so far, in order
EndnoteParagraphs == SelectSeq(content_paragraphs, IsEndnoteParagraph)

\* C2: the numbers written into the endnote paragraphs are 1, 2, 3, ... in
\* order of emission, and there is one endnote paragraph per question
\* passed that has an answer or an explanation
C2_EndnoteNumbers ==
    InLoopOrAfter =>
        LET notes == EndnoteParagraphs
        IN  /\ Len(notes) = Len(SelectSeq(Processed, CarriesNote))
            /\ \A n \in 1..Len(notes) : AttributeOf(notes[n], "number") = ToString(n)
            /\ Len(SelectSeq(content_paragraphs, LAMBDA f : contains(f, " number=")))
                   = Len(notes)

\* two questions with a note around one without
C2_Witness ==
    /\ pc = "done"
    /\ Len(EndnoteParagraphs) = 2
    /\ Len(questions) = 3
    /\ ~CarriesNote(questions[2])

\* C6, the rejected inputs: no question, no Contents/section0.xml in the
\* template, or no closing paragraph tag in that file
NoSectionFile == ~has_member(template_bytes, SECTION_PATH)
NoClosingTag ==
    has_member(template_bytes, SECTION_PATH) /\
    ~contains(zip_read(template_bytes, SECTION_PATH), CLOSE_P)
Rejected == questions = <<>> \/ NoSectionFile \/ NoClosingTag

\* C6: on a rejected input the call ends raising an error, never returns
\* bytes and never writes the output file; with no question it raises before
\* the template is saved or read and before any paragraph is built
C6_NoPartialSuccess ==
    /\ [](Rejected => (result.kind # "returned" /\ ~tmpdir.output.exists
                       /\ new_section = ""))
    /\ [](questions = <<>> => (/\ ~tmpdir.template.exists
                              /\ section_xml = ""
                              /\ all_files = <<>>
                              /\ content_paragraphs = <<>>))
    /\ (Rejected /\ pc = "start") ~> (pc = "failed" /\ result.kind = "raised")

\* the last of the rejections: questions and a section file, no closing tag
C6_Witness ==
    /\ pc = "failed"
    /\ questions # <<>>
    /\ NoClosingTag
    /\ result.kind = "raised"

\* current_source as the claim defines it: empty at first, replaced by the
\* source of a question when that source is non-empty and differs from it
RECURSIVE SourceAfter(_)
SourceAfter(qs) ==
    IF qs = <<>> THEN ""
    ELSE IF /\ get(qs[Len(qs)], "source", "") # ""
            /\ get(qs[Len(qs)], "source", "") # SourceAfter(SubSeq(qs, 1, Len(qs) - 1))
         THEN get(qs[Len(qs)], "source", "")
         ELSE SourceAfter(SubSeq(qs, 1, Len(qs) - 1))

\* does question n (from 1) get a source paragraph
SourceDue(qs, n) ==
    /\ get(qs[n], "source", "") # ""
    /\ get(qs[n], "source", "") # SourceAfter(SubSeq(qs, 1, n - 1))

\* positions of the instruction paragraphs, one per question passed
InstructionPositions ==
    SelectSeq([p \in 1..Len(content_paragraphs) |-> p],
              LAMBDA p : IsInstruction(content_paragraphs[p]))

\* C7: a source paragraph stands immediately before the instruction
\* paragraph of a question exactly when the source of the question is
\* non-empty and differs from current_source, it carries that source, and
\* current_source is the source of the last question that got one
C7_SourceParagraphOnChange ==
    InLoopOrAfter =>
        LET at == InstructionPositions
        IN  /\ Len(at) = idx
            /\ current_source = SourceAfter(Processed)
            /\ \A n \in 1..idx :
                   /\ SourceDue(questions, n) <=>
                          /\ at[n] > 1
                          /\ RoleOf(content_paragraphs[at[n] - 1]) = "source"
                   /\ SourceDue(questions, n) =>
                          TextOf(content_paragraphs[at[n] - 1]) =
                              _xml_escape(strip(get(questions[n], "source", "")))

\* three questions, the first two sharing a source: one source paragraph
\* for the pair, before the first
C7_Witness ==
    /\ pc = "done"
    /\ Len(questions) = 3
    /\ get(questions[1], "source", "") = "s1"
    /\ get(questions[2], "source", "") = "s1"
    /\ get(questions[3], "source", "") = "s2"
    /\ Len(SelectSeq(content_paragraphs, LAMBDA f : RoleOf(f) = "source")) = 2

NonBlankLines(block) == SelectSeq(split_nl(block), LAMBDA line : strip(line) # "")

\* the roles of the paragraphs of question n (from 1), in the order C8 gives
ExpectedRoles(qs, n) ==
    (IF SourceDue(qs, n) THEN <<"source">> ELSE <<>>)
    \o <<IF CarriesNote(qs[n]) THEN "instruction+endnote" ELSE "instruction">>
    \o [k \in 1..Len(NonBlankLines(split_question_text(get(qs[n], "text", ""))[2])) |-> "stem"]
    \o [k \in 1..Len(NonBlankLines(split_question_text(get(qs[n], "text", ""))[3])) |-> "options"]
    \o <<"spacer">>

\* one paragraph text per non-blank line of a block
LineTexts(lines) == [k \in 1..Len(lines) |-> _xml_escape(strip(lines[k]))]

\* the text of the instruction paragraph of a question numbered number
HeaderText(number, instruction) ==
    _xml_escape(IF instruction # "" THEN ToString(number) \o ". " \o instruction
                ELSE ToString(number) \o ".")

\* the paragraph texts of the three parts of a question text
PartTexts(number, parts) ==
    <<HeaderText(number, parts[1])>>
    \o LineTexts(NonBlankLines(parts[2]))
    \o LineTexts(NonBlankLines(parts[3]))

\* a part of a question text, passed through process_formatting_markers
\* when normalized is TRUE and left as it is otherwise
Through(normalized, part) ==
    IF normalized THEN process_formatting_markers(part) ELSE part

ThroughAll(normalized, parts) ==
    <<Through(normalized, parts[1]), Through(normalized, parts[2]),
      Through(normalized, parts[3])>>

\* the texts of the paragraphs of question n (from 1), with the three parts
\* of its text normalized or not before the paragraphs are built
ExpectedTexts(qs, n, normalized) ==
    (IF SourceDue(qs, n) THEN <<_xml_escape(strip(get(qs[n], "source", "")))>> ELSE <<>>)
    \o PartTexts(get(qs[n], "number", n),
                 ThroughAll(normalized, split_question_text(get(qs[n], "text", ""))))
    \o <<"">>

Texts(paras) == [p \in 1..Len(paras) |-> TextOf(paras[p])]

\* C8: the paragraphs are those of the questions in input order, each
\* question giving an optional source paragraph, one instruction paragraph,
\* one stem paragraph per stem line, one options paragraph per option line
\* and one empty spacer paragraph last; the stem and options paragraphs
\* carry the lines of the segmenter in line order; there are as many
\* spacers as questions
C8_ParagraphOrder ==
    InLoopOrAfter =>
        LET roles == Roles(content_paragraphs)
        IN  /\ roles = Concat([n \in 1..idx |-> ExpectedRoles(questions, n)])
            /\ Len(SelectSeq(roles, LAMBDA r : r = "spacer")) = idx
            /\ Texts(content_paragraphs) =
                   Concat([n \in 1..idx |-> ExpectedTexts(questions, n, FALSE)])

\* a question with stem and options after a question without
C8_Witness ==
    /\ pc = "done"
    /\ Len(questions) = 2
    /\ \E p \in 1..(Len(content_paragraphs) - 2) :
           /\ RoleOf(content_paragraphs[p]) = "stem"
           /\ RoleOf(content_paragraphs[p + 1]) = "options"
           /\ RoleOf(content_paragraphs[p + 2]) = "options"

\* C9: the texts in the paragraphs are the segmenter outputs passed through
\* process_formatting_markers, a stem line ##x## standing in its paragraph
\* as **x**
C9_TextsNormalized ==
    InLoopOrAfter =>
        Texts(content_paragraphs) =
            Concat([n \in 1..idx |-> ExpectedTexts(questions, n, TRUE)])

\* 1-based index of the last character of the paragraph element that is
\* open with depth - 1 paragraph elements nested in it at position pos,
\* 0 when it is not closed
RECURSIVE ParagraphEnd(_, _, _)
ParagraphEnd(xml, pos, depth) ==
    IF pos > Len(xml) THEN 0
    ELSE IF startswith(From(xml, pos), CLOSE_P)
         THEN IF depth = 1 THEN pos + Len(CLOSE_P) - 1
              ELSE ParagraphEnd(xml, pos + Len(CLOSE_P), depth - 1)
    ELSE IF startswith(From(xml, pos), "<hp:p ") \/ startswith(From(xml, pos), "<hp:p>")
         THEN IF CharAt(xml, pos + find(From(xml, pos), ">") - 1) = "/"
              THEN ParagraphEnd(xml, pos + 1, depth)
              ELSE ParagraphEnd(xml, pos + 1, depth + 1)
    ELSE ParagraphEnd(xml, pos + 1, depth)

\* the text up to the end of the first complete paragraph element
FirstCompleteElement(xml) == SubSeq(xml, 1, ParagraphEnd(xml, 1, 0))

\* C10: the new section is the template section up to the end of its first
\* complete paragraph element, nested paragraphs included, then the
\* paragraphs in order, then the closing tag of the section
C10_PreambleIsFirstElement ==
    pc \in {"write", "return", "done"} =>
        new_section = FirstCompleteElement(section_xml)
                      \o join(content_paragraphs) \o "</hs:sec>"

====
